---------------------------- MODULE Spec2Model ----------------------------
(***************************************************************************)
(* A model of demidenko::RBTree (src/RBTree.hpp): a red-black tree map     *)
(* with parent links.  Nodes live in a heap of cells addressed by positive *)
(* integers; Null (0) is the null pointer.  Every public operation is one  *)
(* action that runs the whole member function, fixup included.  A second   *)
(* RBTree object (other_) shares the heap: it is the destination and the   *)
(* source of the copies and moves.                                         *)
(*                                                                         *)
(* A failed assert (debug build) and the null dereference that follows the *)
(* same line when asserts are compiled out (NDEBUG) both end the process:  *)
(* the model records the source line in `status` and stops.                *)
(***************************************************************************)
EXTENDS Integers, Sequences, FiniteSets, TLC

\* ------------------------------------------------------------------ bounds
NumKeys == 7        \* keys 1..NumKeys of the structural specification
NumKeysV == 4       \* keys 1..NumKeysV of the specification with payloads
NumVals == 2        \* payloads 1..NumVals
MaxCalls == 3       \* length of the call history of the scenario specification
NumKeysQ == 6       \* number of (odd) keys of the specification with range queries
NumKeysC == 3       \* keys 1..NumKeysC of the specification with two objects

Keys == 1..NumKeys
KeysV == 1..NumKeysV
Vals == 1..NumVals
ScenarioKeys == {10, 20, 30}
OddKeys == {2 * i - 1 : i \in 1..NumKeysQ}
QueryKeys == 1..(2 * NumKeysQ)
KeysC == 1..NumKeysC
FailAts == 0..NumKeysC   \* the allocation of a copy that throws, 0 for none
Payloads == {1}     \* the payloads of the structural specification

Null == 0
NoTree == Null - 1
Red == "Red"
Black == "Black"

\* heap:   the allocated nodes, cell |-> Node
\* root_:  the member root_
\* status: "ok" while the process runs, else the source line that ended it
\* last:   the last call: its operation, key, value argument and result
\* model:  the abstract map (key |-> value) the calls so far describe
\* calls:  the keys inserted so far, kept by the specifications with a history
\* other_: the member root_ of a second RBTree object, NoTree while there is none
VARIABLES heap, root_, status, last, model, calls, other_

vars == <<heap, root_, status, last, model, calls, other_>>

\* ------------------------------------------------------- nodes and helpers
\* Node{ value, color, p, left, right }: aggregate initialisation order
Node(key, val, color, p) ==
  [key |-> key, val |-> val, color |-> color, p |-> p, left |-> Null, right |-> Null]

\* Node::child(bool isLeft)
child(h, n, isLeft) == IF isLeft THEN h[n].left ELSE h[n].right

colorOf(h, target) == IF target # Null THEN h[target].color ELSE Black

compare_(a, b) == a < b

areKeysEqual(first, second) == ~(compare_(first, second) \/ compare_(second, first))

\* the machine state an operation threads through its statements
Mach(h, r) == [h |-> h, root |-> r, st |-> "ok"]

Fault(s, site) == [s EXCEPT !.st = site]

\* new Node{...}: a cell not in use; the cell named after the key when free
newCell(h, key) ==
  IF key \notin DOMAIN h THEN key
  ELSE CHOOSE n \in {key + 100 * j : j \in 1..(Cardinality(DOMAIN h) + 1)} :
         n \notin DOMAIN h

store(h, n, rec) == [x \in DOMAIN h \cup {n} |-> IF x = n THEN rec ELSE h[x]]

\* delete target
free(h, n) == [x \in DOMAIN h \ {n} |-> h[x]]

RECURSIVE findFrom(_, _, _)
findFrom(h, current, key) ==
  IF areKeysEqual(key, h[current].key) THEN current
  ELSE IF compare_(key, h[current].key)
       THEN IF h[current].left # Null THEN findFrom(h, h[current].left, key) ELSE current
       ELSE IF h[current].right # Null THEN findFrom(h, h[current].right, key) ELSE current

findNode(h, r, key) == IF r = Null THEN Null ELSE findFrom(h, r, key)

RECURSIVE minNode(_, _)
minNode(h, target) ==
  IF target = Null THEN Null
  ELSE IF h[target].left # Null THEN minNode(h, h[target].left) ELSE target

updateParentNode(s, oldNode, newNode) ==
  IF s.h[oldNode].p # Null
  THEN IF compare_(s.h[oldNode].key, s.h[s.h[oldNode].p].key)
       THEN [s EXCEPT !.h[s.h[oldNode].p].left = newNode]
       ELSE [s EXCEPT !.h[s.h[oldNode].p].right = newNode]
  ELSE [s EXCEPT !.root = newNode]

\* a plausible slip: lines 499-502 left out, the middle subtree keeps its old parent
rotateRightLinksNoReparent(s, target, l, middle) ==
  [s EXCEPT !.h[l].p = s.h[target].p, !.h[l].right = target,
            !.h[target].p = l, !.h[target].left = middle]

\* rotateRight, lines 491-502: l is target->left, middle is target->left->right
rotateRightLinks(s, target, l, middle) ==
  IF middle # Null
  THEN [s EXCEPT !.h[l].p = s.h[target].p, !.h[l].right = target,
                 !.h[target].p = l, !.h[target].left = middle,
                 !.h[middle].p = target]
  ELSE [s EXCEPT !.h[l].p = s.h[target].p, !.h[l].right = target,
                 !.h[target].p = l, !.h[target].left = middle]

rotateRight(s, target) ==
  IF s.h[target].left = Null THEN Fault(s, "rotateRight:489")
  ELSE rotateRightLinks(updateParentNode(s, target, s.h[target].left), target,
                        s.h[target].left, s.h[s.h[target].left].right)

\* a plausible slip: line 511 copied from rotateRight, the side not flipped
rotateLeftLinksWrongSide(s, target, r, middle) ==
  IF middle # Null
  THEN [s EXCEPT !.h[r].p = s.h[target].p, !.h[r].right = target,
                 !.h[target].p = r, !.h[target].right = middle,
                 !.h[middle].p = target]
  ELSE [s EXCEPT !.h[r].p = s.h[target].p, !.h[r].right = target,
                 !.h[target].p = r, !.h[target].right = middle]

\* rotateLeft, lines 508-519: r is target->right, middle is target->right->left
rotateLeftLinks(s, target, r, middle) ==
  IF middle # Null
  THEN [s EXCEPT !.h[r].p = s.h[target].p, !.h[r].left = target,
                 !.h[target].p = r, !.h[target].right = middle,
                 !.h[middle].p = target]
  ELSE [s EXCEPT !.h[r].p = s.h[target].p, !.h[r].left = target,
                 !.h[target].p = r, !.h[target].right = middle]

\* a plausible slip: the parent (or root_) is not rewired to the new subtree top
rotateLeftKeepsParentLink(s, target) ==
  IF s.h[target].right = Null THEN Fault(s, "rotateLeft:506")
  ELSE rotateLeftLinks(s, target, s.h[target].right, s.h[s.h[target].right].left)

rotateLeft(s, target) ==
  IF s.h[target].right = Null THEN Fault(s, "rotateLeft:506")
  ELSE rotateLeftLinks(updateParentNode(s, target, s.h[target].right), target,
                       s.h[target].right, s.h[s.h[target].right].left)

\* a plausible slip: the side flag selects the opposite rotation
rotateMirrored(s, target, isLeft) ==
  IF isLeft THEN rotateRight(s, target) ELSE rotateLeft(s, target)

rotate(s, target, isLeft) ==
  IF isLeft THEN rotateLeft(s, target) ELSE rotateRight(s, target)

\* ----------------------------------------------------------------- insert
RECURSIVE insertFixup(_, _)

\* lines 302-304: parent Black, grandparent Red, rotate at the grandparent
insertRecolorRotate(s, target, isParentLeft) ==
  IF s.st # "ok" THEN s
  ELSE IF s.h[target].p = Null THEN Fault(s, "insertFixup:302")
  ELSE IF s.h[s.h[target].p].p = Null THEN Fault(s, "insertFixup:303")
  ELSE rotate([s EXCEPT !.h[s.h[target].p].color = Black,
                        !.h[s.h[s.h[target].p].p].color = Red],
              s.h[s.h[target].p].p, ~isParentLeft)

\* a plausible slip: line 299 left out, the inner grandchild is rotated outward
\* but target still names it and not its former parent
insertUncleBlackKeepsTarget(s, target, par, isParentLeft) ==
  IF (target = s.h[par].right) = isParentLeft
  THEN insertFixup(insertRecolorRotate(rotate(s, par, isParentLeft), target, isParentLeft),
                   target)
  ELSE insertFixup(insertRecolorRotate(s, target, isParentLeft), target)

\* lines 297-305: the uncle is Black; an inner grandchild is rotated outward first
insertUncleBlack(s, target, par, isParentLeft) ==
  IF (target = s.h[par].right) = isParentLeft
  THEN insertFixup(insertRecolorRotate(rotate(s, par, isParentLeft), par, isParentLeft),
                   par)
  ELSE insertFixup(insertRecolorRotate(s, target, isParentLeft), target)

\* lines 287-305: the two cases on the uncle's color
insertCases(s, target, par, grandpa, isParentLeft, uncle) ==
  IF colorOf(s.h, uncle) = Red
  THEN insertFixup([s EXCEPT !.h[par].color = Black,
                             !.h[uncle].color = Black,
                             !.h[grandpa].color = Red], grandpa)
  ELSE insertUncleBlack(s, target, par, isParentLeft)

\* lines 285-287: the parent is Red; its side and the uncle
insertRedParent(s, target, par, grandpa) ==
  IF grandpa = Null THEN Fault(s, "insertFixup:285")
  ELSE insertCases(s, target, par, grandpa, par = s.h[grandpa].left,
                   child(s.h, grandpa, ~(par = s.h[grandpa].left)))

insertFixup(s, target) ==
  IF s.st # "ok" THEN s
  ELSE IF colorOf(s.h, s.h[target].p) = Red
  THEN insertRedParent(s, target, s.h[target].p, s.h[s.h[target].p].p)
  ELSE [s EXCEPT !.h[s.root].color = Black]

\* lines 269-277: the new Red node under candidate, on the side compare_ gives
attach(h, candidate, newNode, key, value) ==
  IF compare_(h[candidate].key, key)
  THEN [store(h, newNode, Node(key, value, Red, candidate)) EXCEPT ![candidate].right = newNode]
  ELSE [store(h, newNode, Node(key, value, Red, candidate)) EXCEPT ![candidate].left = newNode]

\* a plausible slip: a present key has its value assigned (map[key] = value)
insertNodeOverwrite(s, candidate, key, value) ==
  IF candidate = Null
  THEN [s |-> [s EXCEPT !.h = store(s.h, newCell(s.h, key), Node(key, value, Black, Null)),
                        !.root = newCell(s.h, key)],
        node |-> newCell(s.h, key)]
  ELSE IF areKeysEqual(key, s.h[candidate].key)
  THEN [s |-> [s EXCEPT !.h[candidate].val = value], node |-> Null]
  ELSE [s |-> insertFixup([s EXCEPT !.h = attach(s.h, candidate, newCell(s.h, key), key, value)],
                          newCell(s.h, key)),
        node |-> newCell(s.h, key)]

\* the machine state after the call and the Node* it returns
insertNode(s, candidate, key, value) ==
  IF candidate = Null
  THEN [s |-> [s EXCEPT !.h = store(s.h, newCell(s.h, key), Node(key, value, Black, Null)),
                        !.root = newCell(s.h, key)],
        node |-> newCell(s.h, key)]
  ELSE IF areKeysEqual(key, s.h[candidate].key)
  THEN [s |-> s, node |-> Null]
  ELSE [s |-> insertFixup([s EXCEPT !.h = attach(s.h, candidate, newCell(s.h, key), key, value)],
                          newCell(s.h, key)),
        node |-> newCell(s.h, key)]

\* ------------------------------------------------------------------ erase
RECURSIVE eraseLoop(_, _, _, _, _)

\* lines 402-409: after the loop
eraseTerminal(s, target, isLeftBroken) ==
  IF target # Null
  THEN IF child(s.h, target, isLeftBroken) = Null THEN Fault(s, "eraseFixup:404")
       ELSE [s EXCEPT !.h[child(s.h, target, isLeftBroken)].color = Black]
  ELSE IF s.root # Null THEN [s EXCEPT !.h[s.root].color = Black]
  ELSE s

\* lines 378-383: target = target->p; child and brother are re-read when it is present
eraseMovedUp(s, target, ch, brother, isLeftBroken) ==
  IF target # Null
  THEN eraseLoop(s, target, child(s.h, target, isLeftBroken),
                 child(s.h, target, ~isLeftBroken), isLeftBroken)
  ELSE eraseLoop(s, Null, ch, brother, isLeftBroken)

\* lines 376-377: both children of the brother are Black
eraseMoveUp(s, target, ch, brother, isLeftBroken) ==
  IF target # s.root /\ s.h[target].p = Null
  THEN Fault([s EXCEPT !.h[brother].color = Red], "eraseFixup:377")
  ELSE eraseMovedUp([s EXCEPT !.h[brother].color = Red], s.h[target].p, ch, brother,
                    target = s.root \/ target = child(s.h, s.h[target].p, isLeftBroken))

\* lines 394-399: the far child of the brother is Red
eraseRotateOut(s, target, ch, brother, isLeftBroken) ==
  IF s.st # "ok" THEN s
  ELSE IF brother = Null THEN Fault(s, "eraseFixup:394")
  ELSE IF child(s.h, brother, ~isLeftBroken) = Null
  THEN Fault([s EXCEPT !.h[brother].color = s.h[target].color,
                       !.h[target].color = Black], "eraseFixup:396")
  ELSE eraseLoop(rotate([s EXCEPT !.h[brother].color = s.h[target].color,
                                  !.h[target].color = Black,
                                  !.h[child(s.h, brother, ~isLeftBroken)].color = Black],
                        target, isLeftBroken),
                 Null, ch, brother, isLeftBroken)

\* line 392: brother = target->child(!isLeftBroken), then lines 394-399
eraseRotateOutFrom(s, target, ch, isLeftBroken) ==
  IF s.st # "ok" THEN s
  ELSE eraseRotateOut(s, target, ch, child(s.h, target, ~isLeftBroken), isLeftBroken)

\* lines 387-393: the far child is Black, so the near child is Red
eraseNearRed(s, target, ch, brother, isLeftBroken) ==
  eraseRotateOutFrom(rotate([s EXCEPT !.h[child(s.h, brother, isLeftBroken)].color = Black,
                                      !.h[brother].color = Red],
                            brother, ~isLeftBroken),
                     target, ch, isLeftBroken)

\* lines 373-400: the cases on the brother's children
eraseCases(s, target, ch, brother, isLeftBroken) ==
  IF s.st # "ok" THEN s
  ELSE IF brother = Null THEN Fault(s, "eraseFixup:373")
  ELSE IF colorOf(s.h, child(s.h, brother, isLeftBroken)) = Black
          /\ colorOf(s.h, child(s.h, brother, ~isLeftBroken)) = Black
  THEN eraseMoveUp(s, target, ch, brother, isLeftBroken)
  ELSE IF colorOf(s.h, child(s.h, brother, ~isLeftBroken)) = Black
  THEN eraseNearRed(s, target, ch, brother, isLeftBroken)
  ELSE eraseRotateOut(s, target, ch, brother, isLeftBroken)

\* line 371: brother = target->child(!isLeftBroken), then lines 373-400
eraseCasesFrom(s, target, ch, isLeftBroken) ==
  IF s.st # "ok" THEN s
  ELSE eraseCases(s, target, ch, child(s.h, target, ~isLeftBroken), isLeftBroken)

\* lines 366-372: the brother is Red
eraseRedBrother(s, target, ch, brother, isLeftBroken) ==
  eraseCasesFrom(rotate([s EXCEPT !.h[brother].color = Black,
                                  !.h[target].color = Red], target, isLeftBroken),
                 target, ch, isLeftBroken)

\* lines 364-409: the loop, with the local variables target, child, brother
eraseLoop(s, target, ch, brother, isLeftBroken) ==
  IF s.st # "ok" THEN s
  ELSE IF target # Null /\ colorOf(s.h, ch) = Black
  THEN IF colorOf(s.h, brother) = Red
       THEN eraseRedBrother(s, target, ch, brother, isLeftBroken)
       ELSE eraseCases(s, target, ch, brother, isLeftBroken)
  ELSE eraseTerminal(s, target, isLeftBroken)

eraseFixup(s, target, isLeftBroken) ==
  IF target = Null THEN Fault(s, "eraseFixup:361")
  ELSE eraseLoop(s, target, child(s.h, target, isLeftBroken),
                 child(s.h, target, ~isLeftBroken), isLeftBroken)

\* line 314
isLeftOfParent(s, target) == target = s.root \/ target = s.h[s.h[target].p].left

\* lines 336-343: the successor is deeper than target->right; t is *target
detach(s, t, candidate, cp, cr) ==
  IF cr # Null
  THEN [s EXCEPT !.h[cp].left = cr, !.h[cr].p = cp,
                 !.h[t.right].p = candidate, !.h[candidate].right = t.right]
  ELSE [s EXCEPT !.h[cp].left = cr,
                 !.h[t.right].p = candidate, !.h[candidate].right = t.right]

\* lines 345-349: the successor takes the place and the color of target
adopt(s, target, t, candidate) ==
  updateParentNode([s EXCEPT !.h[t.left].p = candidate, !.h[candidate].left = t.left,
                             !.h[candidate].p = t.p, !.h[candidate].color = t.color],
                   target, candidate)

\* lines 328-351: two children
relinkSuccessor(s, target, t, candidate) ==
  [s |-> IF candidate # t.right
         THEN adopt(detach(s, t, candidate, s.h[candidate].p, s.h[candidate].right),
                    target, t, candidate)
         ELSE adopt(s, target, t, candidate),
   erasedColor |-> s.h[candidate].color,
   brokenNode |-> candidate,
   isLeftBroken |-> candidate # t.right]

\* lines 321-327: one child
relinkChild(s, target, t, candidate) ==
  [s |-> updateParentNode([s EXCEPT !.h[candidate].p = t.p], target, candidate),
   erasedColor |-> t.color,
   brokenNode |-> t.p,
   isLeftBroken |-> isLeftOfParent(s, target)]

\* eraseNode, lines 312-352: the relinking; the hole it leaves and its color
eraseRelink(s, target) ==
  IF s.h[target].left # Null /\ s.h[target].right # Null
  THEN relinkSuccessor(s, target, s.h[target], minNode(s.h, s.h[target].right))
  ELSE IF s.h[target].left # Null \/ s.h[target].right # Null
  THEN relinkChild(s, target, s.h[target], child(s.h, target, s.h[target].left # Null))
  ELSE [s |-> updateParentNode(s, target, Null),
        erasedColor |-> s.h[target].color,
        brokenNode |-> s.h[target].p,
        isLeftBroken |-> isLeftOfParent(s, target)]

\* lines 353-357: delete the node r unlinked, then the fixup for a Black loss
eraseDelete(r, node) ==
  IF r.erasedColor = Black
  THEN eraseFixup([r.s EXCEPT !.h = free(r.s.h, node)], r.brokenNode, r.isLeftBroken)
  ELSE [r.s EXCEPT !.h = free(r.s.h, node)]

\* a plausible slip: a node with two children takes over the successor's key
\* (and not its value) and the successor is unlinked instead
eraseNodeCopyKey(s, target) ==
  IF s.h[target].left # Null /\ s.h[target].right # Null
  THEN eraseDelete(eraseRelink([s EXCEPT !.h[target].key =
                                            s.h[minNode(s.h, s.h[target].right)].key],
                               minNode(s.h, s.h[target].right)),
                   minNode(s.h, s.h[target].right))
  ELSE eraseDelete(eraseRelink(s, target), target)

eraseNode(s, target) == eraseDelete(eraseRelink(s, target), target)

RECURSIVE isWeakRBTree(_, _)
\* returns black height. 0 means error.
isWeakRBTree(h, target) ==
  IF target = Null THEN 1
  ELSE LET isRed == h[target].color = Red IN
       IF isRed /\ (colorOf(h, h[target].left) = Red \/ colorOf(h, h[target].right) = Red)
       THEN 0
       ELSE LET result == isWeakRBTree(h, h[target].right) IN
            IF result = 0 \/ result # isWeakRBTree(h, h[target].left) THEN 0
            ELSE result + (IF isRed THEN 0 ELSE 1)

\* --------------------------------------------------------- public operations
Ret(b) == IF b THEN "true" ELSE "false"

\* the abstract map the tree stands for: insert keeps an entry already there
modelInsert(m, k, v) ==
  IF k \in DOMAIN m THEN m ELSE [x \in DOMAIN m \cup {k} |-> IF x = k THEN v ELSE m[x]]

modelErase(m, k) == [x \in DOMAIN m \ {k} |-> m[x]]

\* the call returns (or the process ends): the members and the call's record
Return(s, op, k, v, ret) ==
  /\ heap' = s.h
  /\ root_' = s.root
  /\ status' = s.st
  /\ last' = [op |-> op, key |-> k, arg |-> v, out |-> 0,
              ret |-> IF s.st = "ok" THEN ret ELSE "none"]

insertReturn(r, k, v) == Return(r.s, "insert", k, v, Ret(r.node # Null))

\* bool insert(const K& key, const T& value)
insert(k, v) ==
  /\ status = "ok"
  /\ insertReturn(insertNode(Mach(heap, root_), findNode(heap, root_, k), k, v), k, v)
  /\ model' = modelInsert(model, k, v)

eraseTarget(target, k) ==
  IF target = Null \/ ~areKeysEqual(k, heap[target].key)
  THEN Return(Mach(heap, root_), "erase", k, 0, "false")
  ELSE Return(eraseNode(Mach(heap, root_), target), "erase", k, 0, "true")

\* bool erase(const K& key)
erase(k) ==
  /\ status = "ok"
  /\ eraseTarget(findNode(heap, root_, k), k)
  /\ model' = modelErase(model, k)

\* a plausible slip: the node the search stopped at is taken for the key's node
atResultNoKeyCheck(h, r, k) ==
  IF findNode(h, r, k) # Null
  THEN [ret |-> "value", out |-> h[findNode(h, r, k)].val]
  ELSE [ret |-> "out_of_range", out |-> 0]

\* T& at(const K& key): the value, or std::out_of_range
atResult(h, r, k) ==
  IF findNode(h, r, k) # Null /\ areKeysEqual(k, h[findNode(h, r, k)].key)
  THEN [ret |-> "value", out |-> h[findNode(h, r, k)].val]
  ELSE [ret |-> "out_of_range", out |-> 0]

at(k) ==
  /\ status = "ok"
  /\ last' = [op |-> "at", key |-> k, arg |-> 0,
              out |-> atResult(heap, root_, k).out, ret |-> atResult(heap, root_, k).ret]
  /\ UNCHANGED <<heap, root_, status, model>>

\* int count(const K& key) const
countResult(h, r, k) ==
  IF findNode(h, r, k) # Null /\ areKeysEqual(k, h[findNode(h, r, k)].key) THEN 1 ELSE 0

count(k) ==
  /\ status = "ok"
  /\ last' = [op |-> "count", key |-> k, arg |-> 0, out |-> countResult(heap, root_, k),
              ret |-> "int"]
  /\ UNCHANGED <<heap, root_, status, model>>

\* the outcomes of reading root_->color through a null root_ (line 166 on the
\* empty tree, undefined behaviour): the process ends, or the read yields some
\* color and the call returns false, or true (isWeakRBTree(nullptr) is 1)
NullRootOutcomes == {"isRBTree:166", "false", "true"}

\* a null root_ read at line 166, with the outcome o
isRBTreeNullRoot(o) ==
  /\ status' = IF o \in {"false", "true"} THEN "ok" ELSE o
  /\ last' = [op |-> "isRBTree", key |-> 0, arg |-> 0, out |-> 0,
              ret |-> IF o \in {"false", "true"} THEN o ELSE "none"]

\* bool isRBTree() const
isRBTree ==
  /\ status = "ok"
  /\ IF root_ = Null
     THEN \E o \in NullRootOutcomes : isRBTreeNullRoot(o)
     ELSE /\ last' = [op |-> "isRBTree", key |-> 0, arg |-> 0, out |-> 0,
                      ret |-> IF heap[root_].color # Black THEN "false"
                              ELSE Ret(isWeakRBTree(heap, root_) # 0)]
          /\ UNCHANGED status
  /\ UNCHANGED <<heap, root_, model>>

\* T(): the value a default-constructed payload has
DefaultVal == 0

\* line 105, candidate = insert(key, T()): the entry is inserted, and the bool
\* insert returns is assigned to the Node* that line 107 dereferences.  The
\* conversion is ill-formed; no build has a Node* to the new entry here.
indexMiss(r, k) ==
  Return(IF r.s.st = "ok" THEN Fault(r.s, "operator[]:105") ELSE r.s,
         "index", k, DefaultVal, "value")

\* T& operator[](const K& key)
index(k) ==
  /\ status = "ok"
  /\ IF findNode(heap, root_, k) # Null
        /\ areKeysEqual(k, heap[findNode(heap, root_, k)].key)
     THEN /\ last' = [op |-> "index", key |-> k, arg |-> DefaultVal,
                      out |-> heap[findNode(heap, root_, k)].val, ret |-> "value"]
          /\ UNCHANGED <<heap, root_, status>>
     ELSE indexMiss(insertNode(Mach(heap, root_), findNode(heap, root_, k), k, DefaultVal), k)
  /\ model' = modelInsert(model, k, DefaultVal)

\* iterator::operator++: the in-order successor, found over the parent links
RECURSIVE climb(_, _)
climb(h, current) ==
  IF h[current].p # Null /\ h[h[current].p].right = current
  THEN climb(h, h[current].p)
  ELSE h[current].p

increment(h, current) ==
  IF h[current].right # Null THEN minNode(h, h[current].right) ELSE climb(h, current)

\* a plausible slip: the iterator at the node the search stopped at is returned
\* as it is, lines 135-138 left out
lowerBoundNoAdvance(h, r, key) == findNode(h, r, key)

\* iterator lowerBound(const K& key): the node the returned iterator holds
lowerBoundResult(h, r, key) ==
  IF findNode(h, r, key) # Null /\ compare_(h[findNode(h, r, key)].key, key)
  THEN increment(h, findNode(h, r, key))
  ELSE findNode(h, r, key)

\* the key an iterator designates, 0 for end()
keyAt(h, n) == IF n = Null THEN 0 ELSE h[n].key

lowerBound(k) ==
  /\ status = "ok"
  /\ last' = [op |-> "lowerBound", key |-> k, arg |-> 0,
              out |-> keyAt(heap, lowerBoundResult(heap, root_, k)), ret |-> "iterator"]
  /\ UNCHANGED <<heap, root_, status, model>>

\* iterator begin() / end(): the node an iterator holds
begin(h, r) == minNode(h, r)

end == Null

\* ------------------------------------------------- copy, move, destruction
\* clear(), lines 74-98: the nodes are deleted on the way up, right subtrees first
RECURSIVE clearLoop(_, _)
RECURSIVE clearClimb(_, _, _)
\* lines 87-95: current is deleted; so is every ancestor it ends the right subtree of
clearClimb(h, current, candidate) ==
  IF candidate # Null /\ h[candidate].right = current
  THEN clearClimb(free(h, current), candidate, h[candidate].p)
  ELSE clearLoop(free(h, current), candidate)

\* lines 75-97
clearLoop(h, current) ==
  IF current = Null THEN h
  ELSE IF h[current].right # Null THEN clearLoop(h, minNode(h, h[current].right))
  ELSE clearClimb(h, current, h[current].p)

\* the heap after clear(); the caller sets root_ to nullptr (line 98)
clear(h, r) == clearLoop(h, minNode(h, r))

\* copyTree, lines 224-257.  c holds the heap, the cursors from and to, the
\* number n of nodes allocated so far by this copy, the allocation failAt that
\* throws std::bad_alloc (0: none does) and whether it has been thrown.
RECURSIVE gotoMinCopying(_)
RECURSIVE copyLoop(_)
RECURSIVE copyClimb(_, _)

\* to->left (or right) = new Node{ from->value, from->color, to }; to = that node
linkCopy(c, f, cell, isLeft) ==
  [c EXCEPT !.h = IF isLeft
                  THEN [store(c.h, cell, Node(c.h[f].key, c.h[f].val, c.h[f].color, c.to))
                          EXCEPT ![c.to].left = cell]
                  ELSE [store(c.h, cell, Node(c.h[f].key, c.h[f].val, c.h[f].color, c.to))
                          EXCEPT ![c.to].right = cell],
            !.from = f, !.to = cell, !.n = c.n + 1]

\* lines 229-231 and 239-241: from steps to its child f, whose copy is allocated
copyChild(c, f, isLeft) ==
  IF c.n + 1 = c.failAt THEN [c EXCEPT !.from = f, !.thrown = TRUE]
  ELSE linkCopy(c, f, newCell(c.h, c.h[f].key), isLeft)

\* lines 226-233
gotoMinCopying(c) ==
  IF c.thrown THEN c
  ELSE IF c.h[c.from].left # Null
  THEN gotoMinCopying(copyChild(c, c.h[c.from].left, TRUE))
  ELSE c

\* lines 246-254
copyClimb(c, candidate) ==
  IF candidate # Null /\ c.h[candidate].right = c.from
  THEN copyClimb([c EXCEPT !.from = candidate, !.to = c.h[c.to].p], c.h[candidate].p)
  ELSE [c EXCEPT !.from = candidate, !.to = c.h[c.to].p]

\* lines 235-256
copyLoop(c) ==
  IF c.thrown \/ c.from = Null THEN c
  ELSE IF c.h[c.from].right # Null
  THEN copyLoop(gotoMinCopying(copyChild(c, c.h[c.from].right, FALSE)))
  ELSE copyLoop(copyClimb(c, c.h[c.from].p))

copyTree(h, from, to, n, failAt) ==
  copyLoop(gotoMinCopying([h |-> h, from |-> from, to |-> to, n |-> n,
                           failAt |-> failAt, thrown |-> FALSE]))

\* lines 44-47: catch (...) { clear(); }
copied(c, r) ==
  IF c.thrown THEN [h |-> clear(c.h, r), root |-> Null] ELSE [h |-> c.h, root |-> r]

\* line 41 done, then line 42 and the handler
copyFromRoot(h, src, r, failAt) ==
  copied(copyTree(store(h, r, Node(h[src].key, h[src].val, Black, Null)), src, r, 1, failAt), r)

\* a plausible slip: the copy takes the source's root pointer, no node is cloned
copyShallow(h, src, failAt) == [h |-> h, root |-> src]

\* RBTree(const RBTree& src), lines 33-49: the heap and the new object's root_
copyConstructed(h, src, failAt) ==
  IF src = Null \/ failAt = 1 THEN [h |-> h, root |-> Null]
  ELSE copyFromRoot(h, src, newCell(h, h[src].key), failAt)

\* operator=(const RBTree& src), lines 57-60: newTree(src), the swap of the
\* roots, and newTree's destructor, which clears what the destination held
copyAssigned(newTree, dst) == [h |-> clear(newTree.h, dst), root |-> newTree.root]

\* the abstract map a tree stands for
MapOf(h, r) ==
  [k \in {h[n].key : n \in {m \in DOMAIN h : findNode(h, r, h[m].key) = m}} |->
     h[findNode(h, r, k)].val]

Done(op, failAt) == [op |-> op, key |-> 0, arg |-> failAt, out |-> 0, ret |-> "ok"]

\* RBTree other;  lines 25-28
constructOther ==
  /\ status = "ok"
  /\ other_ = NoTree
  /\ other_' = Null
  /\ last' = Done("construct", 0)
  /\ UNCHANGED <<heap, root_, status, model>>

\* RBTree other(*this);
copyConstruct(failAt) ==
  /\ status = "ok"
  /\ other_ = NoTree
  /\ heap' = copyConstructed(heap, root_, failAt).h
  /\ other_' = copyConstructed(heap, root_, failAt).root
  /\ last' = Done("copyConstruct", failAt)
  /\ UNCHANGED <<root_, status, model>>

\* RBTree other(std::move(*this));  lines 50-54
moveConstruct ==
  /\ status = "ok"
  /\ other_ = NoTree
  /\ other_' = root_
  /\ root_' = Null
  /\ model' = <<>>
  /\ last' = Done("moveConstruct", 0)
  /\ UNCHANGED <<heap, status>>

\* other = *this;
copyAssign(failAt) ==
  /\ status = "ok"
  /\ other_ # NoTree
  /\ heap' = copyAssigned(copyConstructed(heap, root_, failAt), other_).h
  /\ other_' = copyAssigned(copyConstructed(heap, root_, failAt), other_).root
  /\ last' = Done("other=this", failAt)
  /\ UNCHANGED <<root_, status, model>>

\* a plausible slip: the destination is cleared and the source's root is taken
moveAssignOtherClears ==
  /\ status = "ok"
  /\ other_ # NoTree
  /\ heap' = clear(heap, other_)
  /\ other_' = root_
  /\ root_' = Null
  /\ model' = <<>>
  /\ last' = Done("other=move(this)", 0)
  /\ UNCHANGED status

\* other = std::move(*this);  lines 62-67: the roots are swapped
moveAssignOther ==
  /\ status = "ok"
  /\ other_ # NoTree
  /\ other_' = root_
  /\ root_' = other_
  /\ model' = MapOf(heap, other_)
  /\ last' = Done("other=move(this)", 0)
  /\ UNCHANGED <<heap, status>>

\* *this = std::move(other);
moveAssignThis ==
  /\ status = "ok"
  /\ other_ # NoTree
  /\ root_' = other_
  /\ other_' = root_
  /\ model' = MapOf(heap, other_)
  /\ last' = Done("this=move(other)", 0)
  /\ UNCHANGED <<heap, status>>

\* other.~RBTree(), lines 68-71
destroyOther ==
  /\ status = "ok"
  /\ other_ # NoTree
  /\ heap' = clear(heap, other_)
  /\ other_' = NoTree
  /\ last' = Done("~other", 0)
  /\ UNCHANGED <<root_, status, model>>

\* the call on the second object returns (or the process ends)
ReturnOther(s, op, k, v, ret) ==
  /\ heap' = s.h
  /\ other_' = s.root
  /\ status' = s.st
  /\ last' = [op |-> op, key |-> k, arg |-> v, out |-> 0,
              ret |-> IF s.st = "ok" THEN ret ELSE "none"]
  /\ UNCHANGED <<root_, model>>

insertOtherReturn(r, k, v) == ReturnOther(r.s, "other.insert", k, v, Ret(r.node # Null))

\* other.insert(k, v)
insertOther(k, v) ==
  /\ status = "ok"
  /\ other_ # NoTree
  /\ insertOtherReturn(insertNode(Mach(heap, other_), findNode(heap, other_, k), k, v), k, v)

\* other.erase(k)
eraseOther(k) ==
  /\ status = "ok"
  /\ other_ # NoTree
  /\ IF findNode(heap, other_, k) = Null
        \/ ~areKeysEqual(k, heap[findNode(heap, other_, k)].key)
     THEN ReturnOther(Mach(heap, other_), "other.erase", k, 0, "false")
     ELSE ReturnOther(eraseNode(Mach(heap, other_), findNode(heap, other_, k)),
                      "other.erase", k, 0, "true")

\* insert(k, v) when new throws std::bad_alloc (lines 262, 269): nothing is
\* linked yet, the exception leaves insertNode and insert
insertThrows(k, v) ==
  /\ status = "ok"
  /\ countResult(heap, root_, k) = 0
  /\ last' = [op |-> "insert", key |-> k, arg |-> v, out |-> 0, ret |-> "bad_alloc"]
  /\ UNCHANGED <<heap, root_, status, model>>

\* ------------------------------------------------------------ specifications
Init ==
  /\ heap = <<>>
  /\ root_ = Null
  /\ status = "ok"
  /\ last = [op |-> "new", key |-> 0, arg |-> 0, out |-> 0, ret |-> "none"]
  /\ model = <<>>
  /\ calls = <<>>
  /\ other_ = NoTree

\* every operation, keys and payloads from small sets
Next ==
  \/ \E k \in KeysV, v \in Vals : insert(k, v) /\ UNCHANGED <<calls, other_>>
  \/ \E k \in KeysV : erase(k) /\ UNCHANGED <<calls, other_>>
  \/ \E k \in KeysV : at(k) /\ UNCHANGED <<calls, other_>>
  \/ \E k \in KeysV : count(k) /\ UNCHANGED <<calls, other_>>

Spec == Init /\ [][Next]_vars

\* the structural specification: more keys, one payload
DeepNext ==
  \/ \E k \in Keys, v \in Payloads : insert(k, v) /\ UNCHANGED <<calls, other_>>
  \/ \E k \in Keys : erase(k) /\ UNCHANGED <<calls, other_>>

DeepSpec == Init /\ [][DeepNext]_vars

\* insert calls only
InsertNext == \E k \in Keys, v \in Payloads : insert(k, v) /\ UNCHANGED <<calls, other_>>

InsertSpec == Init /\ [][InsertNext]_vars

\* insert calls only, on the keys of the spec's scenarios, with their history
ScenarioNext ==
  \E k \in ScenarioKeys, v \in Vals :
     /\ Len(calls) < MaxCalls
     /\ insert(k, v)
     /\ calls' = Append(calls, k)
     /\ UNCHANGED other_

ScenarioSpec == Init /\ [][ScenarioNext]_vars

\* two objects: inserts and erases on the first, inserts on the second, copies
\* of the first into the second; an allocation of a copy or of an insert may throw
CopyNext ==
  \/ \E k \in KeysC, v \in Payloads : insert(k, v) /\ UNCHANGED <<calls, other_>>
  \/ \E k \in KeysC : erase(k) /\ UNCHANGED <<calls, other_>>
  \/ \E k \in KeysC, v \in Payloads : insertThrows(k, v) /\ UNCHANGED <<calls, other_>>
  \/ \E k \in KeysC, v \in Payloads : insertOther(k, v) /\ UNCHANGED calls
  \/ constructOther /\ UNCHANGED calls
  \/ \E f \in FailAts : copyConstruct(f) /\ UNCHANGED calls
  \/ \E f \in FailAts : copyAssign(f) /\ UNCHANGED calls
  \/ destroyOther /\ UNCHANGED calls

CopySpec == Init /\ [][CopyNext]_vars

\* two objects: inserts and erases on both and moves between them
MoveNext ==
  \/ \E k \in KeysC, v \in Payloads : insert(k, v) /\ UNCHANGED <<calls, other_>>
  \/ \E k \in KeysC : erase(k) /\ UNCHANGED <<calls, other_>>
  \/ \E k \in KeysC, v \in Payloads : insertOther(k, v) /\ UNCHANGED calls
  \/ \E k \in KeysC : eraseOther(k) /\ UNCHANGED calls
  \/ constructOther /\ UNCHANGED calls
  \/ moveConstruct /\ UNCHANGED calls
  \/ moveAssignOther /\ UNCHANGED calls
  \/ moveAssignThis /\ UNCHANGED calls
  \/ destroyOther /\ UNCHANGED calls

MoveSpec == Init /\ [][MoveNext]_vars

\* inserts, erases and the invariant check
CheckNext ==
  \/ \E k \in Keys, v \in Payloads : insert(k, v) /\ UNCHANGED <<calls, other_>>
  \/ \E k \in Keys : erase(k) /\ UNCHANGED <<calls, other_>>
  \/ isRBTree /\ UNCHANGED <<calls, other_>>

CheckSpec == Init /\ [][CheckNext]_vars

\* inserts, erases and default-inserting accesses
IndexNext ==
  \/ \E k \in KeysV, v \in Vals : insert(k, v) /\ UNCHANGED <<calls, other_>>
  \/ \E k \in KeysV : erase(k) /\ UNCHANGED <<calls, other_>>
  \/ \E k \in KeysV : index(k) /\ UNCHANGED <<calls, other_>>

IndexSpec == Init /\ [][IndexNext]_vars

\* inserts and erases of the odd keys, lower-bound queries for every key up to
\* one above them: a query may equal a key, lie between two, or above all
QueryNext ==
  \/ \E k \in OddKeys, v \in Payloads : insert(k, v) /\ UNCHANGED <<calls, other_>>
  \/ \E k \in OddKeys : erase(k) /\ UNCHANGED <<calls, other_>>
  \/ \E k \in QueryKeys : lowerBound(k) /\ UNCHANGED <<calls, other_>>

QuerySpec == Init /\ [][QueryNext]_vars

\* insert calls only, on any keys, with their history
OrderNext ==
  \E k \in Keys, v \in Payloads :
     /\ Len(calls) < MaxCalls
     /\ insert(k, v)
     /\ calls' = Append(calls, k)
     /\ UNCHANGED other_

OrderSpec == Init /\ [][OrderNext]_vars

\* ------------------------------------------------------------- measurements
RECURSIVE InOrder(_, _)
InOrder(h, n) ==
  IF n = Null THEN <<>>
  ELSE InOrder(h, h[n].left) \o <<h[n].key>> \o InOrder(h, h[n].right)

StrictlyIncreasing(q) == \A i \in 1..(Len(q) - 1) : compare_(q[i], q[i + 1])

RootBlack(h, r) == r # Null => h[r].color = Black

Valid(h, r) == RootBlack(h, r) /\ isWeakRBTree(h, r) # 0

\* a tree as a value: key, payload, color, left subtree, right subtree
RECURSIVE Shape(_, _)
Shape(h, n) ==
  IF n = Null THEN <<>>
  ELSE <<h[n].key, h[n].val, h[n].color, Shape(h, h[n].left), Shape(h, h[n].right)>>

\* the cells of a tree
RECURSIVE Cells(_, _)
Cells(h, n) ==
  IF n = Null THEN {} ELSE {n} \cup Cells(h, h[n].left) \cup Cells(h, h[n].right)

TreeKeys(h, r) == {InOrder(h, r)[i] : i \in 1..Len(InOrder(h, r))}

Remove(q, k) == SelectSeq(q, LAMBDA x : x # k)

NodeOf(h, k) == CHOOSE n \in DOMAIN h : h[n].key = k

TwoChildren(h, k) ==
  /\ \E n \in DOMAIN h : h[n].key = k
  /\ h[NodeOf(h, k)].left # Null
  /\ h[NodeOf(h, k)].right # Null

\* ------------------------------------------------------------------- claims

\* C1: after every completed insert or erase of any sequence from the empty
\* tree, the root (if present) is Black, no Red node has a Red child and all
\* root-to-leaf paths hold the same number of Black nodes.
C1_ValidAfterEveryOperation == status = "ok" => Valid(heap, root_)

C2_Step ==
  /\ status' = "ok"
  /\ Valid(heap', root_')
  /\ last'.op = "insert"
  /\ last'.ret = Ret(last'.key \notin TreeKeys(heap, root_))

\* C2: in a run of insert calls only, every insert completes, leaves the tree
\* valid (Black root, no Red-Red, equal black-height), and returns true exactly
\* when the key was not in the tree before the call.
C2_InsertOnlyValid == [][C2_Step]_vars

C2_Witness ==
  /\ Cardinality(DOMAIN heap) = NumKeys
  /\ last.op = "insert"
  /\ last.ret = "false"

\* C3: after every completed insert or erase the in-order key sequence of the
\* tree is strictly increasing under the comparator (a search tree, no key twice).
C3_InOrderStrictlyIncreasing ==
  status = "ok" => StrictlyIncreasing(InOrder(heap, root_))

C3_Witness ==
  /\ last.op = "erase"
  /\ last.ret = "true"
  /\ Len(InOrder(heap, root_)) = NumKeys - 1
  /\ root_ # Null
  /\ heap[root_].left # Null
  /\ heap[root_].right # Null

C4_Step ==
  /\ last'.op = "insert" => last'.ret = Ret(last'.key \notin DOMAIN model)
  /\ last'.op = "erase" => last'.ret = Ret(last'.key \in DOMAIN model)
  /\ \A k \in KeysV :
       countResult(heap', root_', k) = (IF k \in DOMAIN model' THEN 1 ELSE 0)

\* C4: the tree refines the abstract set of keys: count(k) is 1 exactly for the
\* keys inserted and not erased since, insert returns true exactly when the key
\* was absent, and erase returns true exactly when the key was present.
C4_RefinesKeySet == [][C4_Step]_vars

C5_Step ==
  /\ (last'.op = "insert" /\ last'.ret = "true")
       => atResult(heap', root_', last'.key) = [ret |-> "value", out |-> last'.arg]
  /\ \A k \in KeysV :
       (/\ atResult(heap, root_, k).ret = "value"
        /\ last'.op \in {"insert", "erase"}
        /\ last'.key # k
        /\ status' = "ok")
       => atResult(heap', root_', k) = atResult(heap, root_, k)

\* C5: once insert(k, v) has returned true, at(k) returns v, and it returns
\* the same value after every later completed insert or erase of another key.
C5_InsertThenAt == [][C5_Step]_vars

C5_Witness ==
  /\ status = "ok"
  /\ last.op = "erase"
  /\ last.ret = "true"
  /\ \E k \in DOMAIN model, j \in DOMAIN model :
       /\ model[k] # model[j]
       /\ atResult(heap, root_, k).out = model[k]
       /\ atResult(heap, root_, j).out = model[j]

C6_Step ==
  /\ status' = "ok" =>
       \A k \in KeysV :
         (atResult(heap', root_', k).ret = "out_of_range") <=> (k \notin DOMAIN model')
  /\ (last'.op = "erase" /\ last'.ret = "true")
       => atResult(heap', root_', last'.key).ret = "out_of_range"
  /\ last'.op = "at" =>
       /\ last'.ret = atResult(heap, root_, last'.key).ret
       /\ heap' = heap
       /\ root_' = root_

\* C6: at(k) ends in std::out_of_range exactly when k is not in the map (never
\* inserted, or erased since, the empty tree included), in particular right
\* after erase(k) returned true; a lookup leaves the tree as it was.
C6_AtFailsIffAbsent == [][C6_Step]_vars

C6_Witness ==
  /\ last.op = "at"
  /\ last.ret = "out_of_range"
  /\ root_ # Null
  /\ \E k \in KeysV : k < last.key /\ k \in DOMAIN model
  /\ \E k \in KeysV : k > last.key /\ k \in DOMAIN model

C7_Step ==
  (last'.op = "insert" /\ last'.key \in TreeKeys(heap, root_))
    => /\ last'.ret = "false"
       /\ heap' = heap
       /\ root_' = root_
       /\ status' = "ok"

\* C7: insert(k, v2) on a tree that holds k returns false and changes nothing:
\* the value of k, the shape, the colors and every other entry stay.
C7_DuplicateInsertNoOp == [][C7_Step]_vars

C7_Witness ==
  /\ last.op = "insert"
  /\ last.ret = "false"
  /\ atResult(heap, root_, last.key).ret = "value"
  /\ atResult(heap, root_, last.key).out # last.arg

C8_Step ==
  (/\ last'.op = "erase"
   /\ Valid(heap, root_)
   /\ TwoChildren(heap, last'.key))
    => /\ status' = "ok"
       /\ last'.ret = "true"
       /\ Valid(heap', root_')
       /\ InOrder(heap', root_') = Remove(InOrder(heap, root_), last'.key)

\* C8: on a valid tree, erase(k) of a node with two children returns true,
\* leaves a valid tree, and the in-order key sequence is the one before
\* without k.
C8_EraseTwoChildren == [][C8_Step]_vars

C9_Step ==
  (/\ last'.op = "erase"
   /\ root_ # Null
   /\ Cardinality(DOMAIN heap) = 1
   /\ last'.key = heap[root_].key)
    => /\ status' = "ok"
       /\ last'.ret = "true"
       /\ root_' = Null
       /\ begin(heap', root_') = end

\* C9: erasing the only entry of a single-entry tree completes, returns true
\* and leaves the tree empty: no root, begin() = end().
C9_EraseSoleRoot == [][C9_Step]_vars

\* the tree with root b and the leaves a and c, in the given colors
ThreeNodes(a, ca, b, cb, c, cc) ==
  /\ root_ # Null
  /\ heap[root_].key = b
  /\ heap[root_].color = cb
  /\ heap[root_].left # Null
  /\ heap[root_].right # Null
  /\ LET l == heap[heap[root_].left]
         r == heap[heap[root_].right]
     IN /\ l.key = a /\ l.color = ca /\ l.left = Null /\ l.right = Null
        /\ r.key = c /\ r.color = cc /\ r.left = Null /\ r.right = Null

\* C10 as the spec states it: after insert 10, 20, 30 into the empty tree the
\* root is 20 (Black), its left child 10 is Black and its right child 30 is Black.
C10_AsStated ==
  calls = <<10, 20, 30>> => ThreeNodes(10, Black, 20, Black, 30, Black)

\* C10 (amended): after insert 10, 20, 30 into the empty tree the root is 20
\* and Black, its left child is 10 and Red, its right child is 30 and Red.
C10_RootBlackChildrenRed ==
  calls = <<10, 20, 30>> => ThreeNodes(10, Red, 20, Black, 30, Red)

C10_Witness == calls = <<10, 20, 30>> /\ status = "ok" /\ last.ret = "true"

\* the keys of a call history, and the least, the middle and the greatest of three
CallKeys == {calls[i] : i \in 1..Len(calls)}

Least(S) == CHOOSE x \in S : \A y \in S : ~compare_(y, x)

Greatest(S) == CHOOSE x \in S : \A y \in S : ~compare_(x, y)

Middle(S) == CHOOSE x \in S : x # Least(S) /\ x # Greatest(S)

ThreeDistinctInserted == Len(calls) = 3 /\ Cardinality(CallKeys) = 3

\* C11: for three distinct keys a < b < c, each of the six insertion orders
\* into the empty tree ends in the same tree: root b (Black) with the leaves
\* a on the left and c on the right, both Red, whatever the order was.
C11_OrderIndependent ==
  ThreeDistinctInserted
    => /\ status = "ok"
       /\ ThreeNodes(Least(CallKeys), Red, Middle(CallKeys), Black,
                     Greatest(CallKeys), Red)

\* the order [c, a, b]: the third key is an inner grandchild (lines 297-301)
C11_Witness ==
  /\ ThreeDistinctInserted
  /\ calls[1] = Greatest(CallKeys)
  /\ calls[2] = Least(CallKeys)
  /\ calls[3] = Middle(CallKeys)
  /\ status = "ok"
  /\ heap[root_].key = calls[3]

\* the key of the first entry not less than q, 0 when there is none
FirstNotLess(h, r, q) ==
  IF {k \in TreeKeys(h, r) : ~compare_(k, q)} = {} THEN 0
  ELSE Least({k \in TreeKeys(h, r) : ~compare_(k, q)})

C12_Step ==
  last'.op = "lowerBound"
    => /\ last'.out = FirstNotLess(heap, root_, last'.key)
       /\ heap' = heap
       /\ root_' = root_
       /\ status' = "ok"

\* C12: on every tree reachable by inserts and erases and for every query key
\* q, lowerBound(q) designates the entry with the smallest key not less than q,
\* or end() when every key is less than q or the tree is empty; the call leaves
\* the tree as it was.
C12_LowerBound == [][C12_Step]_vars

\* the spec's example: keys 1, 3, 5, 7 and the query 4, answered with 5
C12_Witness ==
  /\ last.op = "lowerBound"
  /\ TreeKeys(heap, root_) = {1, 3, 5, 7}
  /\ last.key = 4
  /\ last.out = 5

C13_Step ==
  last'.op = "index"
    => /\ status' = "ok"
       /\ last'.ret = "value"
       /\ Valid(heap', root_')
       /\ atResult(heap', root_', last'.key) = [ret |-> "value", out |-> last'.out]
       /\ last'.key \in TreeKeys(heap, root_)
            => /\ heap' = heap
               /\ root_' = root_
               /\ last'.out = atResult(heap, root_, last'.key).out
       /\ last'.key \notin TreeKeys(heap, root_)
            => /\ last'.out = DefaultVal
               /\ TreeKeys(heap', root_') = TreeKeys(heap, root_) \cup {last'.key}

\* C13: operator[](k) on a tree without k inserts k with a default-constructed
\* value, leaves the tree valid and returns a reference to the new value, so
\* that at(k) succeeds afterwards; on a tree with k it returns the value there
\* and changes nothing; it never ends in an exception.
C13_IndexInsertsDefault == [][C13_Step]_vars

MoveOps == {"moveConstruct", "other=move(this)", "this=move(other)"}

\* C14 as the spec states it: after a move construction or a move assignment
\* into any destination the moved-from tree is empty, and no node was deallocated.
C14_AsStated ==
  [][/\ last'.op \in {"moveConstruct", "other=move(this)"} => root_' = Null
     /\ last'.op = "this=move(other)" => other_' = Null
     /\ last'.op \in MoveOps => DOMAIN heap' = DOMAIN heap]_vars

C14_Step ==
  /\ last'.op = "moveConstruct"
       => /\ root_' = Null
          /\ Shape(heap', other_') = Shape(heap, root_)
  /\ last'.op \in {"other=move(this)", "this=move(other)"}
       => /\ Shape(heap', root_') = Shape(heap, other_)
          /\ Shape(heap', other_') = Shape(heap, root_)
  /\ last'.op \in MoveOps => heap' = heap

\* C14 (amended): a move construction leaves the moved-from tree empty and the
\* new tree with its former content; a move assignment exchanges the contents
\* of the two trees, so the moved-from tree holds what the destination held (it
\* is empty exactly when the destination was); no move deallocates or changes
\* a node.
C14_MoveExchanges == [][C14_Step]_vars

\* after a move assignment into a non-empty destination: both trees hold nodes
C14_Witness ==
  /\ last.op = "other=move(this)"
  /\ root_ # Null
  /\ other_ # Null
  /\ other_ # NoTree
  /\ Cardinality(Cells(heap, other_)) = NumKeysC

CopyOps == {"copyConstruct", "other=this"}

\* the copy named by last' ran with no allocation throwing
Copied == last'.op \in CopyOps /\ last'.arg \notin 1..Cardinality(Cells(heap, root_))

\* the parent links of a tree: none at the root, each child's names its parent
LinksInside(h, r) ==
  /\ r # Null => h[r].p = Null
  /\ \A n \in Cells(h, r) :
       /\ h[n].left # Null => h[h[n].left].p = n
       /\ h[n].right # Null => h[h[n].right].p = n

C15_Step ==
  /\ Copied
       => /\ Shape(heap', other_') = Shape(heap, root_)
          /\ Cells(heap', other_') \cap DOMAIN heap = {}
          /\ Cells(heap', other_') \cap Cells(heap', root_') = {}
          /\ LinksInside(heap', other_')
          /\ root_' = root_
          /\ Shape(heap', root_') = Shape(heap, root_)
  /\ (last'.op \in {"insert", "erase"} /\ other_ # NoTree)
       => /\ other_' = other_
          /\ Shape(heap', other_') = Shape(heap, other_)
  /\ last'.op = "other.insert"
       => /\ root_' = root_
          /\ Shape(heap', root_') = Shape(heap, root_)

\* C15: a copy of tree A (copy construction or copy assignment) has the keys,
\* values, shape and colors of A, in fresh nodes whose parent links stay inside
\* the copy; an insert or erase on A afterwards leaves the copy as it was, and
\* a mutation of the copy leaves A as it was.
C15_CopyIndependent == [][C15_Step]_vars

\* an erase on A after it was copied: the copy still holds every key
C15_Witness ==
  /\ other_ # NoTree
  /\ last.op = "erase"
  /\ last.ret = "true"
  /\ Cardinality(Cells(heap, other_)) = NumKeysC
  /\ Cells(heap, other_) \cap KeysC = {}
  /\ Cardinality(Cells(heap, root_)) = NumKeysC - 1

C16_Step ==
  last'.op = "isRBTree"
    => /\ status' = "ok"
       /\ last'.ret = Ret(Valid(heap, root_))
       /\ heap' = heap
       /\ root_' = root_

\* C16: isRBTree() is defined on every tree: on the empty tree it returns true,
\* on a tree with a root it returns true exactly when the root is Black, no Red
\* node has a Red child and the two subtrees of every node have the same
\* black-height.
C16_IsRBTreeTotal == [][C16_Step]_vars

\* the copy named by last' ran with an allocation throwing
CopyFailed == last'.op \in CopyOps /\ last'.arg \in 1..Cardinality(Cells(heap, root_))

C17_Step ==
  /\ (last'.op = "insert" /\ last'.ret = "bad_alloc")
       => /\ heap' = heap
          /\ root_' = root_
  /\ (CopyFailed /\ last'.op = "copyConstruct")
       => /\ other_' = Null
          /\ heap' = heap
  /\ (CopyFailed /\ last'.op = "other=this")
       => /\ Shape(heap', other_') = Shape(heap, other_)
          /\ Shape(heap', root_') = Shape(heap, root_)
          /\ Cells(heap', other_') \cup Cells(heap', root_') = DOMAIN heap'

\* C17: when a node allocation fails the caller sees no partial state: a
\* failed insert leaves the tree as it was, a failed copy construction
\* releases the nodes built so far and leaves the new tree empty, and a failed
\* copy assignment leaves the destination's contents as they were.
C17_NoPartialState == [][C17_Step]_vars

\* the mirror image of a tree on the keys 1..NumKeys (each node in the cell
\* named after its key): keys reversed, left and right exchanged
MirrorCell(c) == IF c = Null THEN Null ELSE NumKeys + 1 - c

MirrorNode(nd) ==
  [key |-> NumKeys + 1 - nd.key, val |-> nd.val, color |-> nd.color,
   p |-> MirrorCell(nd.p), left |-> MirrorCell(nd.right), right |-> MirrorCell(nd.left)]

MirrorHeap(h) == [c \in {MirrorCell(n) : n \in DOMAIN h} |-> MirrorNode(h[MirrorCell(c)])]

\* the erase of the mirrored node from the mirrored tree
MirroredErase(h, r, k) == eraseNode(Mach(MirrorHeap(h), MirrorCell(r)), MirrorCell(k))

C18_Mirrors(m) ==
  IF status' = "ok"
  THEN /\ m.st = "ok"
       /\ m.h = MirrorHeap(heap')
       /\ m.root = MirrorCell(root_')
  ELSE m.st # "ok"

C18_Step ==
  (/\ last'.op = "erase"
   /\ Valid(heap, root_)
   /\ last'.key \in DOMAIN heap
   /\ heap[last'.key].color = Black
   /\ heap[last'.key].left = Null
   /\ heap[last'.key].right = Null)
    => C18_Mirrors(MirroredErase(heap, root_, last'.key))

\* C18: the deletion fixup is left/right symmetric, the step that moves the
\* defect up to the parent included (the side flag of the next iteration is
\* the side on which the former parent hangs): erasing a Black leaf from the
\* mirror image of a valid tree yields the mirror image of what erasing it
\* from the tree yields.
C18_FixupSymmetric == [][C18_Step]_vars

\* C19: in every sequence of insert and erase calls from the empty tree no
\* assert of the code fails and no absent node is dereferenced: eraseFixup is
\* never entered with an absent target, the brother of line 373 and the far
\* child of line 396 are present, and every rotation finds the child it needs.
C19_NoFault == status = "ok"

\* a strict tree with consistent back-references that owns every allocated node
WellLinked(h, r) ==
  /\ IF r = Null THEN DOMAIN h = {} ELSE r \in DOMAIN h /\ h[r].p = Null
  /\ \A n \in DOMAIN h :
       /\ h[n].left \in DOMAIN h \cup {Null}
       /\ h[n].right \in DOMAIN h \cup {Null}
       /\ h[n].left # Null => h[n].left # h[n].right /\ h[h[n].left].p = n
       /\ h[n].right # Null => h[h[n].right].p = n
       /\ n # r => /\ h[n].p \in DOMAIN h
                   /\ n \in {h[h[n].p].left, h[h[n].p].right}
  /\ Cells(h, r) = DOMAIN h

WellLinkedMach(s) == s.st = "ok" /\ WellLinked(s.h, s.root)

\* C20: after every completed insert and erase, and after every rotation of a
\* node of such a tree, the links form a strict tree with consistent
\* back-references: no parent link at the root, every child's parent link
\* names its parent, no node is a child of two nodes or reachable twice, and a
\* node erased is no longer reachable.
C20_StrictTree ==
  status = "ok"
    => /\ WellLinked(heap, root_)
       /\ (last.op = "erase" /\ last.ret = "true")
            => last.key \notin TreeKeys(heap, root_) /\ last.key \notin DOMAIN heap
       /\ \A n \in DOMAIN heap :
            /\ heap[n].right # Null => WellLinkedMach(rotateLeft(Mach(heap, root_), n))
            /\ heap[n].left # Null => WellLinkedMach(rotateRight(Mach(heap, root_), n))

\* after an erase from a full tree: a tree of depth three to rotate in
C20_Witness ==
  /\ status = "ok"
  /\ last.op = "erase"
  /\ last.ret = "true"
  /\ Cardinality(DOMAIN heap) = NumKeys - 1
  /\ heap[root_].left # Null
  /\ heap[heap[root_].left].right # Null

=============================================================================
